---- MODULE Spec2Model ----
(***************************************************************************)
(* State-machine model of the salary predictor: CSV ingestion and feature  *)
(* encoding (lib/data-processing.ts), the model cache in localStorage and  *)
(* IndexedDB (lib/model-storage.ts), the two getOrTrainModel variants      *)
(* (lib/ml-model.ts and the copy that carries predict/predictBatch), the   *)
(* dashboard start-up (initializeApp), its Retrain Model handler, the      *)
(* charts that sort the tables they are given, and the prediction form.    *)
(*                                                                         *)
(* Numbers.  Feature values are kept in hundredths (fixed point, two       *)
(* decimals), which is exact for everything the encoder emits because      *)
(* remote_ratio is an integer; salaries, means and standard deviations are *)
(* integers (means truncate, the square root is the integer square root).  *)
(* A quotient is kept by its kind alone: finite, NaN (0/0) or Infinity     *)
(* (x/0); no other non-finite float arises in the code modelled.           *)
(***************************************************************************)
EXTENDS Integers, Sequences, FiniteSets, TLC

VARIABLES
    dataset,        \* the text served at /dataset.csv, as its data lines
    publicModel,    \* the bundled model under /public/model/ (or Null)
    localDoc,       \* localStorage["salary_prediction_model"]
    idb,            \* weights under indexeddb://salary-prediction-model
    clock,          \* what new Date() reads; one tick per training run
    pc,             \* where the dashboard is: init, getModel, ready, error
    data,           \* Dashboard state: ProcessedData | null
    model,          \* Dashboard state: MLModel | null
    loading,        \* Dashboard state
    isTrainingModel,\* Dashboard state
    error,          \* Dashboard state: string | null
    prediction,     \* PredictionForm state: number | null
    formLoading,    \* PredictionForm state: loading
    lastFeatures,   \* the feature vector of the latest handlePredict
    lastProfile,    \* the form fields of the latest handlePredict
    lastPredict,    \* what the latest model.predict call was given and returned
    lastAttempt,    \* how the latest try block of handlePredict ended
    lastLoad,       \* outcome of the latest loadModelFromStorage call
    lastInfo,       \* what the latest getModelInfo call returned
    lastGet,        \* trace of the latest getOrTrainModel call
    lastSave,       \* what the latest completed saveModelToStorage was given
    entry,          \* who wrote the cache entry last: none, saved, cleared, other
    csvLine,        \* one data line of a CSV text, character by character
    csvRow          \* what the .map callback of parseCSV made of csvLine

vars == <<dataset, publicModel, localDoc, idb, clock, pc, data, model, loading,
          isTrainingModel, error, prediction, formLoading, lastFeatures,
          lastProfile, lastPredict, lastAttempt, lastLoad, lastInfo, lastGet,
          lastSave, entry, csvLine, csvRow>>

-----------------------------------------------------------------------------
(* Bounds of the model *)

\* rows of the generated valid block of a data set
MaxBase == 10
\* free rows put before and after the valid block
MaxExtra == 2
\* training runs in one behaviour
MaxRuns == 2
\* the forward pass emits a standardized value between -MaxZ and MaxZ
MaxZ == 2
\* characters of a data line given to the splitting loop of parseCSV
MaxLine == 5

-----------------------------------------------------------------------------
(* Values *)

\* JavaScript null / undefined, and a present value
Null == [some |-> FALSE]

IsNull(v) == v = Null

\* Array.prototype.indexOf, zero based, -1 when absent
RECURSIVE IndexFrom(_, _, _)
IndexFrom(list, x, i) ==
    IF i > Len(list) THEN -1
    ELSE IF list[i] = x THEN i - 1
    ELSE IndexFrom(list, x, i + 1)

\* indexOf giving the first position for a value that is absent
indexOfOrFirst(list, x) == IF IndexFrom(list, x, 1) < 0 THEN 0 ELSE IndexFrom(list, x, 1)

indexOf(list, x) == IndexFrom(list, x, 1)

\* the slice call left out
sliceSkipped(seq, n) == seq

\* Array.prototype.slice(0, n)
slice0(seq, n) == SubSeq(seq, 1, IF Len(seq) < n THEN Len(seq) ELSE n)

RECURSIVE SumSeq(_)
SumSeq(s) == IF s = <<>> THEN 0 ELSE Head(s) + SumSeq(Tail(s))

\* Math.floor in the place of Math.round
RoundDivFloor(num, den) == num \div den

\* Math.round of num/den for den > 0: halves go up
RoundDiv(num, den) == (2 * num + den) \div (2 * den)

\* Math.max(0, x)
MathMax0(x) == IF x > 0 THEN x ELSE 0

\* a value in hundredths
Hundredths(x) == x * 100

-----------------------------------------------------------------------------
(* lib/data-processing.ts *)

\* a numeric cell of the file: its text parses as an integer, or it does not
NumCell(n) == [num |-> TRUE, val |-> n]
TextCell == [num |-> FALSE, val |-> 0]

\* Number.parseInt(value) || 0
parseIntOrZero(cell) == IF cell.num THEN cell.val ELSE 0

\* one data line after the quote-aware split, typed by header (lines 55-71)
parseRow(line) ==
    [work_year        |-> parseIntOrZero(line.work_year),
     experience_level |-> line.experience_level,
     employment_type  |-> line.employment_type,
     job_title        |-> line.job_title,
     salary_in_usd    |-> parseIntOrZero(line.salary_in_usd),
     remote_ratio     |-> parseIntOrZero(line.remote_ratio),
     company_location |-> line.company_location,
     company_size     |-> line.company_size]

\* lines.slice(1).map(...): every data line as a typed row
parsedRows(csv) == [i \in 1..Len(csv.lines) |-> parseRow(csv.lines[i])]

keepsRow(row) == row.salary_in_usd > 0 /\ row.work_year >= 2020

parseCSV(csv) == SelectSeq(parsedRows(csv), keepsRow)

\* a JavaScript string made of the given characters
RECURSIVE textOf(_)
textOf(chars) == IF chars = <<>> THEN "" ELSE Head(chars) \o textOf(Tail(chars))

RECURSIVE trimStart(_)
trimStart(chars) ==
    IF chars # <<>> /\ Head(chars) = " " THEN trimStart(Tail(chars)) ELSE chars

RECURSIVE trimEnd(_)
trimEnd(chars) ==
    IF chars # <<>> /\ chars[Len(chars)] = " "
      THEN trimEnd(SubSeq(chars, 1, Len(chars) - 1))
    ELSE chars

\* String.prototype.trim
trim(chars) == trimEnd(trimStart(chars))

\* value.replace(/"/g, "")
replaceQuotes(chars) == SelectSeq(chars, LAMBDA c : c # "\"")

\* the comma test of the loop with the inQuotes condition forgotten
isSeparatorAnywhere(char, inQuotes) == char = ","

\* char === "," && !inQuotes
isSeparator(char, inQuotes) == char = "," /\ ~inQuotes

\* the character loop over a data line from position i on, and the push
\* that follows it
RECURSIVE splitFrom(_, _, _, _, _)
splitFrom(line, i, values, current, inQuotes) ==
    IF i > Len(line) THEN Append(values, trim(current))
    ELSE LET char == line[i]
         IN IF char = "\""
              THEN splitFrom(line, i + 1, values, current, ~inQuotes)
            ELSE IF isSeparator(char, inQuotes)
              THEN splitFrom(line, i + 1, Append(values, trim(current)), <<>>, inQuotes)
            ELSE splitFrom(line, i + 1, values, Append(current, char), inQuotes)

\* values of one data line: current = "", inQuotes = false, then the loop
splitLine(line) == splitFrom(line, 1, <<>>, <<>>, FALSE)

Digits == <<"0", "1", "2", "3", "4", "5", "6", "7", "8", "9">>

IsDigit(c) == \E d \in 1..Len(Digits) : Digits[d] = c

\* the value of the leading decimal digits of chars, after acc
RECURSIVE digitsValue(_, _)
digitsValue(chars, acc) ==
    IF chars = <<>> \/ ~IsDigit(Head(chars)) THEN acc
    ELSE digitsValue(Tail(chars), acc * 10 + indexOf(Digits, Head(chars)))

\* Number.parseInt(value): blanks skipped, an optional sign, then the leading
\* digits; NaN (a cell that is no number) when no digit is there
parseInt(chars) ==
    LET text == trimStart(chars)
        signed == text # <<>> /\ Head(text) \in {"-", "+"}
        digits == IF signed THEN Tail(text) ELSE text
    IN IF digits = <<>> \/ ~IsDigit(Head(digits)) THEN TextCell
       ELSE IF signed /\ Head(text) = "-" THEN NumCell(0 - digitsValue(digits, 0))
       ELSE NumCell(digitsValue(digits, 0))

\* the switch of the forEach callback
NumericHeaders == {"work_year", "salary", "salary_in_usd", "remote_ratio"}

\* values[index]?.replace(/"/g, "") || "", index counted from 1
valueAt(values, index) ==
    IF index <= Len(values) THEN replaceQuotes(values[index]) ELSE <<>>

\* headers.forEach: the cell put under every header, a later header of the
\* same name overwriting an earlier one
cellsOf(headers, values) ==
    [header \in {headers[i] : i \in 1..Len(headers)} |->
        LET index == CHOOSE i \in 1..Len(headers) :
                        /\ headers[i] = header
                        /\ \A j \in (i + 1)..Len(headers) : headers[j] # header
        IN IF header \in NumericHeaders
             THEN parseInt(valueAt(values, index))
           ELSE textOf(valueAt(values, index))]

\* the .map callback of parseCSV on one data line
mapLine(headers, line) == parseRow(cellsOf(headers, splitLine(line)))

\* isValidJob with the job_title condition forgotten
isValidJobNoTitle(job) ==
    /\ job.salary_in_usd > 0
    /\ job.work_year >= 2020
    /\ job.experience_level # ""
    /\ job.employment_type # ""
    /\ job.company_size # ""

\* the filter of loadAndProcessData: a non-empty string is truthy
isValidJob(job) ==
    /\ job.salary_in_usd > 0
    /\ job.work_year >= 2020
    /\ job.experience_level # ""
    /\ job.employment_type # ""
    /\ job.company_size # ""
    /\ job.job_title # ""

\* the keys of a Map filled in this order: first insertion fixes the position
RECURSIVE KeysInOrder(_, _)
KeysInOrder(keys, acc) ==
    IF keys = <<>> THEN acc
    ELSE KeysInOrder(Tail(keys),
                     IF \E i \in 1..Len(acc) : acc[i] = Head(keys)
                     THEN acc ELSE Append(acc, Head(keys)))

\* stable sort by descending .k, as Array.prototype.sort((a, b) => b.k - a.k)
RECURSIVE InsertDesc(_, _)
InsertDesc(sorted, e) ==
    IF sorted = <<>> THEN <<e>>
    ELSE IF Head(sorted).k >= e.k THEN <<Head(sorted)>> \o InsertDesc(Tail(sorted), e)
    ELSE <<e>> \o sorted

RECURSIVE SortDescFrom(_, _)
SortDescFrom(rest, sorted) ==
    IF rest = <<>> THEN sorted
    ELSE SortDescFrom(Tail(rest), InsertDesc(sorted, Head(rest)))

\* the sort call left out
sortDescSkipped(seq) == seq

sortDesc(seq) == SortDescFrom(seq, <<>>)

\* calculateStats over the keys already taken from the records
\* (keys[i] = groupBy(records[i])): one entry per key, sorted by avgSalary
groupSalaries(records, keys, key) ==
    LET idx == SelectSeq([i \in 1..Len(records) |-> i], LAMBDA i : keys[i] = key)
    IN [i \in 1..Len(idx) |-> records[idx[i]].salary_in_usd]

calculateStats(records, keys) ==
    LET groups == KeysInOrder(keys, <<>>)
        statsEntry(key) ==
            LET salaries == groupSalaries(records, keys, key)
            IN [key       |-> key,
                avgSalary |-> RoundDiv(SumSeq(salaries), Len(salaries)),
                count     |-> Len(salaries)]
        entries == [g \in 1..Len(groups) |->
                      [k |-> statsEntry(groups[g]).avgSalary, v |-> statsEntry(groups[g])]]
        sorted == sortDesc(entries)
    IN [g \in 1..Len(sorted) |-> sorted[g].v]

fieldOf(records, f) == [i \in 1..Len(records) |-> records[i][f]]

experienceLevels == <<"EN", "MI", "SE", "EX">>
employmentTypes == <<"FT", "PT", "CT", "FL">>
companySizes == <<"S", "M", "L">>

featureNames ==
    <<"work_year_normalized", "experience_level_encoded",
      "employment_type_encoded", "company_size_encoded",
      "remote_ratio_normalized", "job_title_encoded">>

\* how many job titles the vocabulary keeps
TopTitles == 20

\* createFeatures, lines 112-121: the vocabulary
topJobTitlesOf(records) ==
    LET titles == fieldOf(records, "job_title")
        keys == KeysInOrder(titles, <<>>)
        counted == [g \in 1..Len(keys) |->
                      [k |-> Cardinality({i \in 1..Len(titles) : titles[i] = keys[g]}),
                       v |-> keys[g]]]
        sorted == sortDesc(counted)
    IN slice0([g \in 1..Len(sorted) |-> sorted[g].v], TopTitles)

\* createFeatures, lines 127-134: one record's vector, in hundredths
encodeJob(job, vocabulary) ==
    <<Hundredths(job.work_year - 2020),
      Hundredths(indexOf(experienceLevels, job.experience_level)),
      Hundredths(indexOf(employmentTypes, job.employment_type)),
      Hundredths(indexOf(companySizes, job.company_size)),
      Hundredths(job.remote_ratio) \div 100,
      Hundredths(indexOf(vocabulary, job.job_title))>>

\* createFeatures putting each target at the front (unshift for push)
createFeaturesTargetsUnshifted(records) ==
    LET vocabulary == topJobTitlesOf(records)
    IN [features     |-> [i \in 1..Len(records) |-> encodeJob(records[i], vocabulary)],
        targets      |-> [i \in 1..Len(records) |->
                            records[Len(records) + 1 - i].salary_in_usd],
        featureNames |-> featureNames,
        topJobTitles |-> vocabulary]

createFeatures(records) ==
    LET vocabulary == topJobTitlesOf(records)
    IN [features     |-> [i \in 1..Len(records) |-> encodeJob(records[i], vocabulary)],
        targets      |-> [i \in 1..Len(records) |-> records[i].salary_in_usd],
        featureNames |-> featureNames,
        topJobTitles |-> vocabulary]

\* fewer valid records than this is "Insufficient valid data for analysis"
MinValid == 10

Failure(msg) == [ok |-> FALSE, message |-> msg]

\* the minimum test letting one record fewer through
tooFewOffByOne(n) == n < MinValid - 1

\* validData.length < 10 (line 188)
tooFew(n) == n < MinValid

\* loadAndProcessData for one response of fetch("/dataset.csv")
loadAndProcessData(fetchOk, csv) ==
    IF ~fetchOk THEN Failure("Data processing failed: Failed to fetch dataset")
    ELSE IF csv.blank THEN Failure("Data processing failed: Dataset file is empty")
    ELSE
      LET rawData == parseCSV(csv)
          validData == SelectSeq(rawData, isValidJob)
          enc == createFeatures(validData)
      IN IF Len(rawData) = 0
           THEN Failure("Data processing failed: No valid data found in dataset")
         ELSE IF tooFew(Len(validData))
           THEN Failure("Data processing failed: Insufficient valid data for analysis")
         ELSE [ok |-> TRUE,
               value |->
                 [rawData          |-> validData,
                  experienceStats  |-> calculateStats(validData, fieldOf(validData, "experience_level")),
                  locationStats    |-> calculateStats(validData, fieldOf(validData, "company_location")),
                  yearlyStats      |-> calculateStats(validData, fieldOf(validData, "work_year")),
                  companySizeStats |-> calculateStats(validData, fieldOf(validData, "company_size")),
                  jobTitleStats    |-> calculateStats(validData, fieldOf(validData, "job_title")),
                  remoteStats      |-> calculateStats(validData, fieldOf(validData, "remote_ratio")),
                  employmentStats  |-> calculateStats(validData, fieldOf(validData, "employment_type")),
                  features         |-> enc.features,
                  targets          |-> enc.targets,
                  featureNames     |-> enc.featureNames,
                  topJobTitles     |-> enc.topJobTitles]]

-----------------------------------------------------------------------------
(* Tensors and the scaler *)

\* tf.tensor1d(values) and tensor.dataSync()
tensor1d(values) == [dtype |-> "float32", values |-> values]
dataSync(t) == t.values

RECURSIVE SqrtBetween(_, _, _)
SqrtBetween(x, lo, hi) ==
    IF hi - lo <= 1 THEN lo
    ELSE LET mid == (lo + hi) \div 2
         IN IF mid * mid <= x THEN SqrtBetween(x, mid, hi) ELSE SqrtBetween(x, lo, mid)

\* the integer square root of x >= 0
isqrt(x) == SqrtBetween(x, 0, IF x < 46340 THEN x + 1 ELSE 46340)

\* tensor.mean() of a vector
meanOf(values) == SumSeq(values) \div Len(values)

\* tensor.sub(mean).square().mean().sqrt(): the population deviation
stdOf(values) ==
    LET m == meanOf(values)
    IN isqrt(SumSeq([i \in 1..Len(values) |-> (values[i] - m) * (values[i] - m)])
             \div Len(values))

column(matrix, j) == [i \in 1..Len(matrix) |-> matrix[i][j]]

\* the scaler both training functions compute (mean(0), deviation per column)
fitScaler(d) ==
    LET width == Len(d.features[1])
    IN [featureMean |-> tensor1d([j \in 1..width |-> meanOf(column(d.features, j))]),
        featureStd  |-> tensor1d([j \in 1..width |-> stdOf(column(d.features, j))]),
        targetMean  |-> meanOf(d.targets),
        targetStd   |-> stdOf(d.targets)]

\* the kind of (x - mean) / (std + 1e-8) when epsilon, of (x - mean) / std
\* when not: deviations are never negative, so only the second can divide
\* by zero
standardizeKind(x, mean, std, epsilon) ==
    IF epsilon \/ std # 0 THEN "finite"
    ELSE IF x = mean THEN "NaN"
    ELSE "Infinity"

\* the kinds met in matrix.sub(featureMean).div(featureStd [+ 1e-8])
standardizedKinds(matrix, scaler, epsilon) ==
    {standardizeKind(matrix[i][j], dataSync(scaler.featureMean)[j],
                     dataSync(scaler.featureStd)[j], epsilon) :
        i \in 1..Len(matrix), j \in 1..Len(dataSync(scaler.featureMean))}

\* the kinds met in normalizedFeatures and normalizedTargets of a training
fittedKinds(d, scaler, epsilon) ==
    standardizedKinds(d.features, scaler, epsilon) \cup
    {standardizeKind(d.targets[i], scaler.targetMean, scaler.targetStd, epsilon) :
        i \in 1..Len(d.targets)}

\* what model.predict can emit for a standardized input: the network is an
\* unknown function of it, so the extremes of the range and zero
ForwardOutputs == {0 - MaxZ, 0, MaxZ}

\* prediction.mul(scaler.targetStd).add(scaler.targetMean)
denormalize(scaler, z) == z * scaler.targetStd + scaler.targetMean

\* MLModel.predict of the copy in model-storage.ts (lines 248-267, 321-342)
predict(m, features, z) == MathMax0(denormalize(m.scaler, z))

\* MLModel.predictBatch (lines 269-288, 344-367); zs[i] is the forward
\* output of row i
predictBatch(m, batch, zs) ==
    [i \in 1..Len(batch) |-> MathMax0(denormalize(m.scaler, zs[i]))]

\* the tensors one predict (or predictBatch) call of the copy creates, in
\* the order it creates them: the input, its difference to the means, the
\* deviations plus epsilon, the quotient, the forward output, its product
\* with targetStd, the sum with targetMean
predictTensors ==
    <<"featureTensor", "featureTensor.sub", "featureStd.add", "normalizedInput",
      "prediction", "prediction.mul", "denormalizedPrediction">>

\* the tensors its cleanup block disposes
predictDisposed ==
    {"featureTensor", "normalizedInput", "prediction", "denormalizedPrediction"}

\* the tensors the form that runs the tensors itself creates
inlineTensors == <<"inputTensor", "inputTensor.sub", "normalizedInput", "output">>

\* that form disposes none
inlineDisposed == {}

\* tensors a call leaves alive: a call that throws does so in the forward
\* pass, which skips every dispose call after it; a call that returns has
\* run its cleanup block
tensorsLeft(created, disposed, forward, throws) ==
    IF throws THEN indexOf(created, forward)
    ELSE Cardinality({i \in 1..Len(created) : created[i] \notin disposed})

-----------------------------------------------------------------------------
(* lib/model-storage.ts: the cache *)

MODEL_VERSION == "1.0.0"

modelUrl == "indexeddb://salary-prediction-model"

\* localStorage.getItem gives null
NoDoc == [kind |-> "none"]

\* a stored string that JSON.parse rejects
Garbage == [kind |-> "garbage"]

JSONstringify(value) == [kind |-> "json", value |-> value]

\* a property of a parsed object is present
Has(obj, f) == f \in DOMAIN obj

Storage(doc, weights) == [doc |-> doc, idb |-> weights]

\* the metadata saveModelToStorage writes (lines 41-47)
savedMetadata(d, now) ==
    [version      |-> MODEL_VERSION,
     trainedAt    |-> now,
     dataSize     |-> Len(d.rawData),
     features     |-> d.featureNames,
     topJobTitles |-> d.topJobTitles]

\* saveModelToStorage writing the feature means in both scaler arrays
saveModelToStorageMixed(weights, scaler, d, now, fault, store) ==
    IF fault = "weights" THEN [ok |-> FALSE, store |-> store]
    ELSE LET modelData ==
               [modelUrl |-> modelUrl,
                scaler   |-> [featureMean |-> dataSync(scaler.featureMean),
                              featureStd  |-> dataSync(scaler.featureMean),
                              targetMean  |-> scaler.targetMean,
                              targetStd   |-> scaler.targetStd],
                metadata |-> savedMetadata(d, now)]
         IN IF fault = "document"
              THEN [ok |-> FALSE, store |-> Storage(store.doc, weights)]
            ELSE [ok |-> TRUE, store |-> Storage(JSONstringify(modelData), weights)]

\* saveModelToStorage storing the weights and never the document
saveModelToStorageWeightsOnly(weights, scaler, d, now, fault, store) ==
    IF fault = "weights" THEN [ok |-> FALSE, store |-> store]
    ELSE IF fault = "document"
      THEN [ok |-> FALSE, store |-> Storage(store.doc, weights)]
    ELSE [ok |-> TRUE, store |-> Storage(store.doc, weights)]

\* saveModelToStorage writing the document before it stores the weights
saveModelToStorageDocumentFirst(weights, scaler, d, now, fault, store) ==
    LET modelData ==
          [modelUrl |-> modelUrl,
           scaler   |-> [featureMean |-> dataSync(scaler.featureMean),
                         featureStd  |-> dataSync(scaler.featureStd),
                         targetMean  |-> scaler.targetMean,
                         targetStd   |-> scaler.targetStd],
           metadata |-> savedMetadata(d, now)]
    IN IF fault = "document" THEN [ok |-> FALSE, store |-> store]
       ELSE IF fault = "weights"
         THEN [ok |-> FALSE, store |-> Storage(JSONstringify(modelData), store.idb)]
       ELSE [ok |-> TRUE, store |-> Storage(JSONstringify(modelData), weights)]

\* saveModelToStorage(model, scaler, data). fault: "none", or the step that
\* throws: "weights" (model.save) or "document" (localStorage.setItem)
saveModelToStorage(weights, scaler, d, now, fault, store) ==
    IF fault = "weights" THEN [ok |-> FALSE, store |-> store]
    ELSE LET modelData ==
               [modelUrl |-> modelUrl,
                scaler   |-> [featureMean |-> dataSync(scaler.featureMean),
                              featureStd  |-> dataSync(scaler.featureStd),
                              targetMean  |-> scaler.targetMean,
                              targetStd   |-> scaler.targetStd],
                metadata |-> savedMetadata(d, now)]
         IN IF fault = "document"
              THEN [ok |-> FALSE, store |-> Storage(store.doc, weights)]
            ELSE [ok |-> TRUE, store |-> Storage(JSONstringify(modelData), weights)]

LoadOutcome(result, doc, weightsRead, threw) ==
    [result |-> result, doc |-> doc, weightsRead |-> weightsRead, threw |-> threw]

\* the catch block of loadModelFromStorage: remove the entry, return null
loadCaught(weightsRead) == LoadOutcome(Null, NoDoc, weightsRead, FALSE)

\* loadModelFromStorage with the version check left out
loadModelFromStorageAnyVersion(store) ==
    IF store.doc = NoDoc THEN LoadOutcome(Null, store.doc, FALSE, FALSE)
    ELSE IF store.doc.kind # "json" THEN loadCaught(FALSE)
    ELSE LET modelData == store.doc.value
         IN IF ~Has(modelData, "metadata") THEN loadCaught(FALSE)
            ELSE IF ~Has(modelData, "modelUrl") \/ IsNull(store.idb)
              THEN loadCaught(FALSE)
            ELSE IF ~Has(modelData, "scaler") THEN loadCaught(TRUE)
            ELSE LoadOutcome(
                   [some     |-> TRUE,
                    model    |-> store.idb,
                    scaler   |-> [featureMean |-> tensor1d(modelData.scaler.featureMean),
                                  featureStd  |-> tensor1d(modelData.scaler.featureStd),
                                  targetMean  |-> modelData.scaler.targetMean,
                                  targetStd   |-> modelData.scaler.targetStd],
                    metadata |-> modelData.metadata],
                   store.doc, TRUE, FALSE)

\* loadModelFromStorage(): what it returns, the entry it leaves, whether
\* tf.loadLayersModel delivered the weights, whether an exception escaped
loadModelFromStorage(store) ==
    IF store.doc = NoDoc THEN LoadOutcome(Null, store.doc, FALSE, FALSE)
    ELSE IF store.doc.kind # "json" THEN loadCaught(FALSE)
    ELSE LET modelData == store.doc.value
         IN IF ~Has(modelData, "metadata") THEN loadCaught(FALSE)
            ELSE IF ~Has(modelData.metadata, "version")
                    \/ modelData.metadata.version # MODEL_VERSION
              THEN LoadOutcome(Null, store.doc, FALSE, FALSE)
            ELSE IF ~Has(modelData, "modelUrl") \/ IsNull(store.idb)
              THEN loadCaught(FALSE)
            ELSE IF ~Has(modelData, "scaler") THEN loadCaught(TRUE)
            ELSE LoadOutcome(
                   [some     |-> TRUE,
                    model    |-> store.idb,
                    scaler   |-> [featureMean |-> tensor1d(modelData.scaler.featureMean),
                                  featureStd  |-> tensor1d(modelData.scaler.featureStd),
                                  targetMean  |-> modelData.scaler.targetMean,
                                  targetStd   |-> modelData.scaler.targetStd],
                    metadata |-> modelData.metadata],
                   store.doc, TRUE, FALSE)

\* clearSavedModel(): the localStorage entry goes, IndexedDB is not touched
clearSavedModel(store) == Storage(NoDoc, store.idb)

\* getModelInfo(): the metadata, or null
getModelInfo(doc) ==
    IF doc = NoDoc THEN Null
    ELSE IF doc.kind # "json" THEN Null
    ELSE IF ~Has(doc.value, "metadata") THEN Null
    ELSE doc.value.metadata

-----------------------------------------------------------------------------
(* Training and the two getOrTrainModel variants *)

Some(v) == [some |-> TRUE, value |-> v]

\* what a completed saveModelToStorage call was given
SaveRecord(scaler, d, now) ==
    [some |-> TRUE, scaler |-> scaler, at |-> now, dataSize |-> Len(d.rawData),
     features |-> d.featureNames, topJobTitles |-> d.topJobTitles]

\* the result of a getOrTrainModel call: the MLModel or the error, the
\* storage it leaves, the steps it took, its loadModelFromStorage outcome
\* (Null when it made none) and the save it completed (Null when none)
GetResult(ok, value, message, store, calls, load, saved) ==
    [ok |-> ok, value |-> value, message |-> message, store |-> store,
     calls |-> calls, load |-> load, saved |-> saved]

\* trainNewModel(data), model-storage.ts lines 196-306; now names the run
trainNewModel(d, now, fault, store, calls, load) ==
    LET scaler == fitScaler(d)
        weights == [run |-> now, fitted |-> fittedKinds(d, scaler, TRUE)]
        saved == saveModelToStorage(weights, scaler, d, now, fault, store)
    IN IF saved.ok
         THEN GetResult(TRUE, [model |-> weights, scaler |-> scaler, predict |-> TRUE],
                        "", saved.store, calls \o <<"train", "save">>, load,
                        SaveRecord(scaler, d, now))
       ELSE GetResult(FALSE, Null, "Model training failed", saved.store,
                      calls \o <<"train", "save">>, load, Null)

\* getOrTrainModel(data) of the copy with predict/predictBatch,
\* model-storage.ts lines 308-387
getOrTrainModelCompat(d, now, fault, store) ==
    LET ld == loadModelFromStorage(store)
        after == Storage(ld.doc, store.idb)
        savedModel == ld.result
    IN IF ~IsNull(savedModel)
         THEN IF \/ ~Has(savedModel.metadata, "features")
                 \/ /\ Len(savedModel.metadata.features) = Len(d.featureNames)
                    /\ ~Has(savedModel.metadata, "topJobTitles")
                THEN GetResult(FALSE, Null, "TypeError", after, <<"loadStorage">>, ld, Null)
              ELSE IF /\ Len(savedModel.metadata.features) = Len(d.featureNames)
                      /\ Len(savedModel.metadata.topJobTitles) = Len(d.topJobTitles)
                THEN GetResult(TRUE,
                               [model |-> savedModel.model, scaler |-> savedModel.scaler,
                                predict |-> TRUE, metadata |-> savedModel.metadata],
                               "", after, <<"loadStorage">>, ld, Null)
              ELSE trainNewModel(d, now, fault, after, <<"loadStorage">>, ld)
       ELSE trainNewModel(d, now, fault, after, <<"loadStorage">>, ld)

\* loadModelFromPublic(): the bundled model and scaler document, or null
loadModelFromPublic(bundle) == bundle

\* trainModel(data), ml-model.ts lines 23-60
trainModel(d, now) ==
    [model  |-> [run |-> now, fitted |-> fittedKinds(d, fitScaler(d), FALSE)],
     scaler |-> fitScaler(d)]

\* getOrTrainModel asking local storage before the bundled model
getOrTrainModelStorageFirst(d, now, fault, store, bundle) ==
    LET fromPublic == loadModelFromPublic(bundle)
        ld == loadModelFromStorage(store)
        after == Storage(ld.doc, store.idb)
        fromStorage == ld.result
        trained == trainModel(d, now)
        saved == saveModelToStorage(trained.model, trained.scaler, d, now, fault, after)
    IN IF ~IsNull(fromStorage)
         THEN GetResult(TRUE,
                        [model |-> fromStorage.model, scaler |-> fromStorage.scaler,
                         predict |-> FALSE, metadata |-> fromStorage.metadata],
                        "", after, <<"loadStorage">>, ld, Null)
       ELSE IF ~IsNull(fromPublic)
         THEN GetResult(TRUE,
                        [model |-> fromPublic.model, scaler |-> fromPublic.scaler,
                         predict |-> FALSE, metadata |-> fromPublic.metadata],
                        "", after, <<"loadStorage", "loadPublic">>, ld, Null)
       ELSE IF saved.ok
         THEN GetResult(TRUE,
                        [model |-> trained.model, scaler |-> trained.scaler,
                         predict |-> FALSE, metadata |-> savedMetadata(d, now)],
                        "", saved.store, <<"loadStorage", "loadPublic", "train", "save">>,
                        ld, SaveRecord(trained.scaler, d, now))
       ELSE GetResult(FALSE, Null, "Error saving model", saved.store,
                      <<"loadStorage", "loadPublic", "train", "save">>, ld, Null)

\* getOrTrainModel(data), ml-model.ts lines 62-99
getOrTrainModel(d, now, fault, store, bundle) ==
    LET fromPublic == loadModelFromPublic(bundle)
        ld == loadModelFromStorage(store)
        after == Storage(ld.doc, store.idb)
        fromStorage == ld.result
        trained == trainModel(d, now)
        saved == saveModelToStorage(trained.model, trained.scaler, d, now, fault, after)
    IN IF ~IsNull(fromPublic)
         THEN GetResult(TRUE,
                        [model |-> fromPublic.model, scaler |-> fromPublic.scaler,
                         predict |-> FALSE, metadata |-> fromPublic.metadata],
                        "", store, <<"loadPublic">>, Null, Null)
       ELSE IF ~IsNull(fromStorage)
         THEN GetResult(TRUE,
                        [model |-> fromStorage.model, scaler |-> fromStorage.scaler,
                         predict |-> FALSE, metadata |-> fromStorage.metadata],
                        "", after, <<"loadPublic", "loadStorage">>, ld, Null)
       ELSE IF saved.ok
         THEN GetResult(TRUE,
                        [model |-> trained.model, scaler |-> trained.scaler,
                         predict |-> FALSE, metadata |-> savedMetadata(d, now)],
                        "", saved.store, <<"loadPublic", "loadStorage", "train", "save">>,
                        ld, SaveRecord(trained.scaler, d, now))
       ELSE GetResult(FALSE, Null, "Error saving model", saved.store,
                      <<"loadPublic", "loadStorage", "train", "save">>, ld, Null)

-----------------------------------------------------------------------------
(* components/prediction-form.tsx *)

\* the Select of job titles lists this many entries of jobTitleStats
JobTitleOptions == 50

\* the items of the job title Select: data.jobTitleStats.slice(0, 50)
jobTitleItems(d) == slice0(d.jobTitleStats, JobTitleOptions)

\* formFeatures with the employment types listed in another order
formFeaturesReordered(profile, vocabulary) ==
    LET experienceLevelsForm == <<"EN", "MI", "SE", "EX">>
        employmentTypesForm == <<"FT", "CT", "PT", "FL">>
        companySizesForm == <<"S", "M", "L">>
    IN <<Hundredths(profile.workYear - 2020),
         Hundredths(indexOf(experienceLevelsForm, profile.experienceLevel)),
         Hundredths(indexOf(employmentTypesForm, profile.employmentType)),
         Hundredths(indexOf(companySizesForm, profile.companySize)),
         Hundredths(profile.remoteRatio) \div 100,
         Hundredths(indexOf(vocabulary, profile.jobTitle))>>

\* handlePredict lines 86-97: the vector built from the form fields
formFeatures(profile, vocabulary) ==
    LET experienceLevelsForm == <<"EN", "MI", "SE", "EX">>
        employmentTypesForm == <<"FT", "PT", "CT", "FL">>
        companySizesForm == <<"S", "M", "L">>
    IN <<Hundredths(profile.workYear - 2020),
         Hundredths(indexOf(experienceLevelsForm, profile.experienceLevel)),
         Hundredths(indexOf(employmentTypesForm, profile.employmentType)),
         Hundredths(indexOf(companySizesForm, profile.companySize)),
         Hundredths(profile.remoteRatio) \div 100,
         Hundredths(indexOf(vocabulary, profile.jobTitle))>>

\* handlePredict lines 449-460 of the form that runs the tensors itself
formFeaturesInline(profile, vocabulary) ==
    LET experienceLevelsForm == <<"EN", "MI", "SE", "EX">>
        employmentTypesForm == <<"FT", "PT", "CT", "FL">>
        companySizesForm == <<"S", "M", "L">>
    IN <<Hundredths(profile.workYear - 2020),
         Hundredths(indexOf(experienceLevelsForm, profile.experienceLevel)),
         Hundredths(indexOf(employmentTypesForm, profile.employmentType)),
         Hundredths(indexOf(companySizesForm, profile.companySize)),
         Hundredths(profile.remoteRatio) \div 100,
         Hundredths(indexOf(vocabulary, profile.jobTitle))>>

\* the guard of handlePredict: every required field is filled in
formComplete(profile) ==
    /\ profile.experienceLevel # ""
    /\ profile.employmentType # ""
    /\ profile.companySize # ""
    /\ profile.jobTitle # ""

-----------------------------------------------------------------------------
(* components/charts *)

\* Array.prototype.sort with the comparator rank(a) - rank(b), ranks[i]
\* being the rank of entries[i]: ascending, equal ranks keeping their order;
\* the array sorted is the array given
sortByRank(entries, ranks) ==
    LET keyed == [g \in 1..Len(entries) |-> [k |-> 0 - ranks[g], v |-> entries[g]]]
        sorted == sortDesc(keyed)
    IN [g \in 1..Len(sorted) |-> sorted[g].v]

\* order[x] || last of a chart's order table
orderOf(table, x) ==
    IF indexOf(table, x) < 0 THEN Len(table) + 1 ELSE indexOf(table, x) + 1

\* ExperienceLevelChart: data.sort(...) by { EN: 1, MI: 2, SE: 3, EX: 4 }
sortExperience(stats) ==
    sortByRank(stats, [g \in 1..Len(stats) |->
                          orderOf(<<"EN", "MI", "SE", "EX">>, stats[g].key)])

\* CompanySizeChart: data.sort(...) by { S: 1, M: 2, L: 3 }
sortCompanySize(stats) ==
    sortByRank(stats, [g \in 1..Len(stats) |-> orderOf(<<"S", "M", "L">>, stats[g].key)])

\* SalaryTrendsChart and YearlyTrendsChart: data.sort((a, b) => a.year - b.year)
sortYear(stats) == sortByRank(stats, [g \in 1..Len(stats) |-> stats[g].key])

-----------------------------------------------------------------------------
(* The files served and the entries other writers leave *)

TitleNames ==
    <<"Data Scientist", "Data Engineer", "Data Analyst", "ML Engineer",
      "Research Scientist", "Analytics Engineer", "Data Architect",
      "BI Developer", "Applied Scientist", "Data Manager", "AI Developer",
      "Head of Data", "NLP Engineer", "Data Specialist", "BI Analyst",
      "ETL Developer", "Data Modeler", "MLOps Engineer", "AI Scientist",
      "Data Lead", "Data Strategist", "Vision Engineer", "Data Steward">>

\* the i-th line of the generated block: a valid record, its own title
BaseLine(i) ==
    [work_year        |-> NumCell(2020 + (i % 3)),
     experience_level |-> experienceLevels[(i % 4) + 1],
     employment_type  |-> employmentTypes[(i % 2) + 1],
     job_title        |-> TitleNames[((i - 1) % Len(TitleNames)) + 1],
     salary_in_usd    |-> NumCell(IF i % 4 = 0 THEN 9 ELSE 1),
     remote_ratio     |-> NumCell((i % 3) * 50),
     company_location |-> IF i % 2 = 0 THEN "US" ELSE "GB",
     company_size     |-> companySizes[(i % 3) + 1]]

BaseLines(n) == [i \in 1..n |-> BaseLine(i)]

\* a second record of the second title: it reorders the vocabulary
RepeatLine == [BaseLine(2) EXCEPT !.salary_in_usd = NumCell(3)]

\* lines that fail exactly one condition, and valid lines outside the block
ExtraLines ==
    {RepeatLine,
     [BaseLine(3) EXCEPT !.experience_level = "XX"],
     [BaseLine(1) EXCEPT !.salary_in_usd = NumCell(0)],
     [BaseLine(1) EXCEPT !.salary_in_usd = TextCell],
     [BaseLine(1) EXCEPT !.work_year = NumCell(2019)],
     [BaseLine(1) EXCEPT !.experience_level = ""],
     [BaseLine(1) EXCEPT !.employment_type = ""],
     [BaseLine(1) EXCEPT !.company_size = ""],
     [BaseLine(1) EXCEPT !.job_title = ""]}

\* valid lines met after a block of more titles than the vocabulary holds:
\* they repeat the last title, the one before it, and the second
LateLines == {BaseLine(TopTitles + 1), BaseLine(TopTitles), RepeatLine}

Csv(lines) == [blank |-> FALSE, lines |-> lines]

BlankCsv == [blank |-> TRUE, lines |-> <<>>]

SeqsUpTo(S, n) == UNION {[1..k -> S] : k \in 0..n}

\* the characters of a data line: a letter, the comma, the double quote, a
\* blank and a digit
CsvChars == {"a", ",", "\"", " ", "7"}

\* the header line of the file the single lines belong to, split at its commas
CsvHeaders ==
    <<"job_title", "salary_in_usd", "company_location", "work_year",
      "experience_level", "employment_type", "remote_ratio", "company_size">>

\* the data lines given to the splitting loop
CsvLines == SeqsUpTo(CsvChars, MaxLine)

\* the files of the ingestion specification: the blank file, the files of up
\* to MaxExtra free lines alone (the header-only file among them), a block of
\* TopTitles + 1 titles followed by up to MaxExtra repeats, and the valid
\* block with up to MaxExtra free lines before and after it
IngestDatasets ==
    {BlankCsv} \cup
    {Csv(lines) : lines \in SeqsUpTo(ExtraLines, MaxExtra)} \cup
    {Csv(BaseLines(TopTitles + 1) \o tail) : tail \in SeqsUpTo(LateLines, MaxExtra)} \cup
    UNION {{Csv(head \o BaseLines(n) \o tail) :
               n \in (MaxBase - 2)..MaxBase,
               tail \in SeqsUpTo(ExtraLines, MaxExtra - Len(head))} :
           head \in SeqsUpTo(ExtraLines, MaxExtra)}

\* the files a deployment of the dashboard serves
AppDatasets ==
    {Csv(BaseLines(MaxBase)),
     Csv(BaseLines(MaxBase) \o <<RepeatLine>>),
     Csv(BaseLines(TopTitles + 1))}

\* a file whose companies all have one size: the company_size column of
\* its feature matrix is constant
OneSizeLines(n) == [i \in 1..n |-> [BaseLine(i) EXCEPT !.company_size = "M"]]

\* the files of the standardization specification
ScaleDatasets == {Csv(OneSizeLines(MaxBase)), Csv(BaseLines(MaxBase))}

\* the bundle under /public/model/: none, or one trained on the first file
PublicBundles ==
    LET d == loadAndProcessData(TRUE, Csv(BaseLines(MaxBase))).value
    IN {Null,
        [some |-> TRUE, model |-> trainModel(d, 0).model, scaler |-> fitScaler(d),
         metadata |-> savedMetadata(d, 0)]}

Without(r, f) == [g \in DOMAIN r \ {f} |-> r[g]]

\* entries left by other writers of the key: an unparsable string, an entry
\* cut short, one from a build older than topJobTitles, one of version 0.9.0
ForeignEntries(doc) ==
    {Garbage} \cup
    (IF doc.kind = "json" /\ Has(doc.value, "metadata")
       THEN {JSONstringify(Without(doc.value, "metadata")),
             JSONstringify(Without(doc.value, "scaler")),
             JSONstringify([doc.value EXCEPT
                              !.metadata = Without(doc.value.metadata, "topJobTitles")]),
             JSONstringify([doc.value EXCEPT !.metadata.version = "0.9.0"])}
     ELSE {})

-----------------------------------------------------------------------------
(* The state machine *)

FreshPage ==
    /\ pc = "init"
    /\ data = Null
    /\ model = Null
    /\ loading = TRUE
    /\ isTrainingModel = FALSE
    /\ error = Null
    /\ prediction = Null
    /\ formLoading = FALSE
    /\ lastFeatures = Null
    /\ lastProfile = Null
    /\ lastPredict = Null
    /\ lastAttempt = Null
    /\ lastLoad = Null
    /\ lastInfo = Null
    /\ lastGet = Null

FreshBrowser ==
    /\ localDoc = NoDoc
    /\ idb = Null
    /\ clock = 0
    /\ lastSave = Null
    /\ entry = "none"

\* no single line is under the splitting loop
NoLine ==
    /\ csvLine = <<>>
    /\ csvRow = Null

Init ==
    /\ dataset \in AppDatasets
    /\ publicModel \in PublicBundles
    /\ FreshBrowser
    /\ FreshPage
    /\ NoLine

\* React state as the components create it
ResetPage ==
    /\ pc' = "init"
    /\ data' = Null
    /\ model' = Null
    /\ loading' = TRUE
    /\ isTrainingModel' = FALSE
    /\ error' = Null
    /\ prediction' = Null
    /\ formLoading' = FALSE
    /\ lastFeatures' = Null
    /\ lastProfile' = Null
    /\ lastPredict' = Null
    /\ lastAttempt' = Null
    /\ lastLoad' = Null
    /\ lastInfo' = Null
    /\ lastGet' = Null

\* window.location.reload(), or a new visit: React state starts over
ReloadPage ==
    /\ pc \in {"ready", "error"}
    /\ ResetPage
    /\ UNCHANGED <<dataset, publicModel, csvLine, csvRow, localDoc, idb, clock, lastSave, entry>>

\* the error view's "Clear Cache & Retry" button (page lines 134-141)
ClearCacheAndRetry ==
    /\ pc = "error"
    /\ localDoc' = clearSavedModel(Storage(localDoc, idb)).doc
    /\ idb' = clearSavedModel(Storage(localDoc, idb)).idb
    /\ entry' = "cleared"
    /\ lastSave' = Null
    /\ ResetPage
    /\ UNCHANGED <<dataset, publicModel, csvLine, csvRow, clock>>

\* initializeApp up to its second await (page lines 77-98)
initializeAppLoad(fetchOk) ==
    /\ pc = "init"
    /\ LET processed == loadAndProcessData(fetchOk, dataset)
           modelInfo == getModelInfo(localDoc)
       IN IF processed.ok
            THEN /\ data' = processed.value
                 /\ lastInfo' = [some |-> TRUE, info |-> modelInfo]
                 /\ isTrainingModel' = IsNull(modelInfo)
                 /\ pc' = "getModel"
                 /\ UNCHANGED <<loading, error>>
          ELSE /\ error' = Some(processed.message)
               /\ loading' = FALSE
               /\ isTrainingModel' = FALSE
               /\ pc' = "error"
               /\ UNCHANGED <<data, lastInfo>>
    /\ UNCHANGED <<dataset, publicModel, csvLine, csvRow, localDoc, idb, clock, model, prediction,
                   formLoading, lastFeatures, lastProfile, lastPredict, lastAttempt,
                   lastLoad, lastGet, lastSave, entry>>

\* the step of saveModelToStorage that threw in a getOrTrainModel call:
\* "none" when it did not reach the save
saveFault(fault, calls) ==
    IF \E i \in 1..Len(calls) : calls[i] = "save" THEN fault ELSE "none"

\* the rest of initializeApp with its finally block left out
initializeAppFinishNoFinally(variant, fault, r) ==
    /\ "train" \in {r.calls[i] : i \in 1..Len(r.calls)} => clock < MaxRuns
    /\ localDoc' = r.store.doc
    /\ idb' = r.store.idb
    /\ clock' = IF "train" \in {r.calls[i] : i \in 1..Len(r.calls)} THEN clock + 1 ELSE clock
    /\ lastGet' = [some |-> TRUE, variant |-> variant, calls |-> r.calls, ok |-> r.ok,
                    message |-> r.message, afterSave |-> entry = "saved",
                    saved |-> lastSave, retrain |-> FALSE,
                    fault |-> saveFault(fault, r.calls)]
    /\ lastLoad' = IF IsNull(r.load) THEN lastLoad
                   ELSE [some |-> TRUE, before |-> localDoc, weights |-> idb,
                         afterSave |-> entry = "saved", saved |-> lastSave,
                         outcome |-> r.load]
    /\ lastSave' = IF ~IsNull(r.saved) THEN r.saved
                   ELSE IF r.store = Storage(localDoc, idb) THEN lastSave ELSE Null
    /\ entry' = IF ~IsNull(r.saved) THEN "saved"
                ELSE IF r.store = Storage(localDoc, idb) THEN entry ELSE "other"
    /\ IF r.ok
         THEN /\ model' = r.value
              /\ pc' = "ready"
              /\ error' = error
       ELSE /\ model' = model
            /\ pc' = "error"
            /\ error' = Some(r.message)
    /\ loading' = loading
    /\ isTrainingModel' = isTrainingModel
    /\ UNCHANGED <<dataset, publicModel, csvLine, csvRow, data, prediction, formLoading, lastFeatures,
                   lastProfile, lastPredict, lastAttempt, lastInfo>>

\* the rest of initializeApp for one getOrTrainModel result (lines 100-112)
initializeAppFinish(variant, fault, r) ==
    /\ "train" \in {r.calls[i] : i \in 1..Len(r.calls)} => clock < MaxRuns
    /\ localDoc' = r.store.doc
    /\ idb' = r.store.idb
    /\ clock' = IF "train" \in {r.calls[i] : i \in 1..Len(r.calls)} THEN clock + 1 ELSE clock
    /\ lastGet' = [some |-> TRUE, variant |-> variant, calls |-> r.calls, ok |-> r.ok,
                    message |-> r.message, afterSave |-> entry = "saved",
                    saved |-> lastSave, retrain |-> FALSE,
                    fault |-> saveFault(fault, r.calls)]
    /\ lastLoad' = IF IsNull(r.load) THEN lastLoad
                   ELSE [some |-> TRUE, before |-> localDoc, weights |-> idb,
                         afterSave |-> entry = "saved", saved |-> lastSave,
                         outcome |-> r.load]
    /\ lastSave' = IF ~IsNull(r.saved) THEN r.saved
                   ELSE IF r.store = Storage(localDoc, idb) THEN lastSave ELSE Null
    /\ entry' = IF ~IsNull(r.saved) THEN "saved"
                ELSE IF r.store = Storage(localDoc, idb) THEN entry ELSE "other"
    /\ IF r.ok
         THEN /\ model' = r.value
              /\ pc' = "ready"
              /\ error' = error
       ELSE /\ model' = model
            /\ pc' = "error"
            /\ error' = Some(r.message)
    /\ loading' = FALSE
    /\ isTrainingModel' = FALSE
    /\ UNCHANGED <<dataset, publicModel, csvLine, csvRow, data, prediction, formLoading, lastFeatures,
                   lastProfile, lastPredict, lastAttempt, lastInfo>>

SaveFaults == {"none", "weights", "document"}

\* initializeApp with getOrTrainModel of ml-model.ts
initializeAppGetModel ==
    /\ pc = "getModel"
    /\ \E fault \in SaveFaults :
         initializeAppFinish("public", fault,
             getOrTrainModel(data, clock + 1, fault, Storage(localDoc, idb), publicModel))

\* initializeApp with getOrTrainModel of the copy with predict/predictBatch
initializeAppGetModelCompat ==
    /\ pc = "getModel"
    /\ \E fault \in SaveFaults :
         initializeAppFinish("compat", fault,
             getOrTrainModelCompat(data, clock + 1, fault, Storage(localDoc, idb)))

\* the render branches with the data/model test put before the error test
DashboardViewDataFirst ==
    IF ~IsNull(data) /\ IsNull(model) /\ isTrainingModel THEN "training"
    ELSE IF IsNull(data) \/ IsNull(model) THEN "blank"
    ELSE IF ~IsNull(error) /\ error.value # "" THEN "error"
    ELSE "dashboard"

\* what Dashboard renders (page lines 118-191): the error card with its
\* Retry and Clear Cache & Retry buttons, the training skeleton, nothing,
\* or the dashboard with the PredictionForm
DashboardView ==
    IF ~IsNull(error) /\ error.value # "" THEN "error"
    ELSE IF ~IsNull(data) /\ IsNull(model) /\ isTrainingModel THEN "training"
    ELSE IF IsNull(data) \/ IsNull(model) THEN "blank"
    ELSE "dashboard"

\* the fields the form is filled with: two complete profiles that differ
\* in every field (the first and the last title on offer), and one with a
\* required field left empty
FormProfiles(d) ==
    LET options == slice0(d.jobTitleStats, JobTitleOptions)
        first == [workYear |-> 2024, experienceLevel |-> "SE", employmentType |-> "PT",
                  companySize |-> "M", jobTitle |-> options[1].key, remoteRatio |-> 50]
        other == [workYear |-> 2021, experienceLevel |-> "EX", employmentType |-> "FL",
                  companySize |-> "L", jobTitle |-> options[Len(options)].key,
                  remoteRatio |-> 100]
    IN {first, other, [first EXCEPT !.jobTitle = ""]}

\* how a handlePredict call that entered its try block ended: "failed" (the
\* catch block ran) or "done", and the tensors it created that are alive
\* and the kinds of values in its standardized input
Attempt(outcome, tensors, input) ==
    [some |-> TRUE, outcome |-> outcome, tensors |-> tensors, input |-> input]

\* the catch block of handlePredict clearing the displayed prediction
predictCaughtCleared(shown) == Null

\* the catch block of handlePredict (form lines 101-103, 470-472): it logs
\* and alerts; the displayed prediction stays what it was
predictCaught(shown) == shown

\* handlePredict of the form that calls model.predict (form lines 78-107),
\* the form of the build whose MLModel carries predict; throws: the tensor
\* backend rejects the call
handlePredict ==
    /\ pc = "ready"
    /\ model.predict
    /\ \E profile \in FormProfiles(data), z \in ForwardOutputs, throws \in BOOLEAN :
         IF ~formComplete(profile)
           THEN UNCHANGED <<prediction, lastFeatures, lastProfile, lastPredict,
                            lastAttempt>>
         ELSE LET features == formFeatures(profile, data.topJobTitles)
              IN /\ lastProfile' = Some(profile)
                 /\ lastFeatures' = Some(features)
                 /\ IF ~throws
                      THEN /\ lastPredict' = [some |-> TRUE, input |-> features,
                                             value |-> predict(model, features, z)]
                           /\ prediction' = Some(predict(model, features, z))
                           /\ lastAttempt' = Attempt("done",
                                  tensorsLeft(predictTensors, predictDisposed,
                                              "prediction", FALSE),
                                  standardizedKinds(<<features>>, model.scaler, TRUE))
                    ELSE /\ prediction' = predictCaught(prediction)
                         /\ lastAttempt' = Attempt("failed",
                                tensorsLeft(predictTensors, predictDisposed,
                                            "prediction", TRUE),
                                standardizedKinds(<<features>>, model.scaler, TRUE))
                         /\ UNCHANGED lastPredict
    /\ formLoading' = FALSE
    /\ UNCHANGED <<dataset, publicModel, csvLine, csvRow, localDoc, idb, clock, pc, data, model, loading,
                   isTrainingModel, error, lastLoad, lastInfo, lastGet, lastSave, entry>>

\* handlePredict of the form that runs the tensors itself (lines 441-476),
\* the form of the build whose MLModel is that of ml-model.ts
handlePredictInline ==
    /\ pc = "ready"
    /\ ~model.predict
    /\ \E profile \in FormProfiles(data), z \in ForwardOutputs, throws \in BOOLEAN :
         IF ~formComplete(profile)
           THEN UNCHANGED <<prediction, lastFeatures, lastProfile, lastAttempt>>
         ELSE LET featuresArray == formFeaturesInline(profile, data.topJobTitles)
                  input == standardizedKinds(<<featuresArray>>, model.scaler, FALSE)
              IN /\ lastProfile' = Some(profile)
                 /\ lastFeatures' = Some(featuresArray)
                 /\ IF throws
                      THEN /\ prediction' = predictCaught(prediction)
                           /\ lastAttempt' = Attempt("failed",
                                  tensorsLeft(inlineTensors, inlineDisposed, "output", TRUE),
                                  input)
                    ELSE /\ prediction' = Some(denormalize(model.scaler, z))
                         /\ lastAttempt' = Attempt("done",
                                tensorsLeft(inlineTensors, inlineDisposed, "output", FALSE),
                                input)
    /\ formLoading' = FALSE
    /\ UNCHANGED <<dataset, publicModel, csvLine, csvRow, localDoc, idb, clock, pc, data, model, loading,
                   isTrainingModel, error, lastPredict, lastLoad, lastInfo, lastGet,
                   lastSave, entry>>

\* between visits: another file is deployed at /dataset.csv
EnvDeployDataset ==
    /\ pc = "init"
    /\ \E d \in AppDatasets \ {dataset} : dataset' = d
    /\ UNCHANGED <<publicModel, csvLine, csvRow, localDoc, idb, clock, pc, data, model, loading,
                   isTrainingModel, error, prediction, formLoading, lastFeatures,
                   lastProfile, lastPredict, lastAttempt, lastLoad, lastInfo, lastGet,
                   lastSave, entry>>

\* between visits: another writer of the key leaves its entry
EnvWriteEntry ==
    /\ pc = "init"
    /\ entry \in {"none", "saved", "cleared"}
    /\ \E doc \in ForeignEntries(localDoc) \ {localDoc} : localDoc' = doc
    /\ entry' = "other"
    /\ lastSave' = Null
    /\ UNCHANGED <<dataset, publicModel, csvLine, csvRow, idb, clock, pc, data, model, loading,
                   isTrainingModel, error, prediction, formLoading, lastFeatures,
                   lastProfile, lastPredict, lastAttempt, lastLoad, lastInfo, lastGet>>

\* between visits: the browser evicts the IndexedDB database
EnvEvictWeights ==
    /\ pc = "init"
    /\ entry = "saved"
    /\ idb' = Null
    /\ entry' = "other"
    /\ lastSave' = Null
    /\ UNCHANGED <<dataset, publicModel, csvLine, csvRow, localDoc, clock, pc, data, model, loading,
                   isTrainingModel, error, prediction, formLoading, lastFeatures,
                   lastProfile, lastPredict, lastAttempt, lastLoad, lastInfo, lastGet>>

Next ==
    \/ ReloadPage
    \/ ClearCacheAndRetry
    \/ \E fetchOk \in BOOLEAN : initializeAppLoad(fetchOk)
    \/ initializeAppGetModel
    \/ initializeAppGetModelCompat
    \/ handlePredict
    \/ handlePredictInline
    \/ EnvDeployDataset
    \/ EnvWriteEntry
    \/ EnvEvictWeights

Spec == Init /\ [][Next]_vars

\* ingestion alone: a browser with an empty cache opens one of the files
InitData ==
    /\ dataset \in IngestDatasets
    /\ publicModel = Null
    /\ FreshBrowser
    /\ FreshPage
    /\ NoLine

NextData == \E fetchOk \in BOOLEAN : initializeAppLoad(fetchOk)

SpecData == InitData /\ [][NextData]_vars

\* a deployment that bundles no model under /public/model/
InitLocal == Init /\ IsNull(publicModel)

SpecLocal == InitLocal /\ [][Next]_vars

\* handleRetrainModel (page lines 59-73) after clearSavedModel(), for one
\* getOrTrainModel result
handleRetrainModelFinish(variant, fault, r) ==
    LET cleared == clearSavedModel(Storage(localDoc, idb))
        trains == \E i \in 1..Len(r.calls) : r.calls[i] = "train"
    IN /\ trains => clock < MaxRuns
       /\ localDoc' = r.store.doc
       /\ idb' = r.store.idb
       /\ clock' = IF trains THEN clock + 1 ELSE clock
       /\ lastGet' = [some |-> TRUE, variant |-> variant, calls |-> r.calls, ok |-> r.ok,
                       message |-> r.message, afterSave |-> FALSE, saved |-> Null,
                       retrain |-> TRUE, fault |-> saveFault(fault, r.calls)]
       /\ lastLoad' = IF IsNull(r.load) THEN lastLoad
                      ELSE [some |-> TRUE, before |-> cleared.doc, weights |-> cleared.idb,
                            afterSave |-> FALSE, saved |-> Null, outcome |-> r.load]
       /\ lastSave' = r.saved
       /\ entry' = IF ~IsNull(r.saved) THEN "saved"
                   ELSE IF r.store = cleared THEN "cleared" ELSE "other"
       /\ IF r.ok
            THEN /\ model' = r.value
                 /\ pc' = pc
                 /\ error' = error
          ELSE /\ model' = model
               /\ pc' = "error"
               /\ error' = Some(r.message)
       /\ isTrainingModel' = FALSE
       /\ UNCHANGED <<dataset, publicModel, csvLine, csvRow, data, loading, prediction,
                      formLoading, lastFeatures, lastProfile, lastPredict, lastAttempt,
                      lastInfo>>

\* the "Retrain Model" button of the page built with lib/ml-model.ts
handleRetrainModel ==
    /\ pc = "ready"
    /\ ~model.predict
    /\ \E fault \in SaveFaults :
         handleRetrainModelFinish("public", fault,
             getOrTrainModel(data, clock + 1, fault,
                             clearSavedModel(Storage(localDoc, idb)), publicModel))

\* the button of the page built with the copy that carries predict
handleRetrainModelCompat ==
    /\ pc = "ready"
    /\ model.predict
    /\ \E fault \in SaveFaults :
         handleRetrainModelFinish("compat", fault,
             getOrTrainModelCompat(data, clock + 1, fault,
                                   clearSavedModel(Storage(localDoc, idb))))

\* the page with its Retrain Model button in place: start-up, the visits
\* and what happens between them as in Next, and the button
NextRetrain ==
    \/ ReloadPage
    \/ ClearCacheAndRetry
    \/ \E fetchOk \in BOOLEAN : initializeAppLoad(fetchOk)
    \/ initializeAppGetModel
    \/ initializeAppGetModelCompat
    \/ handleRetrainModel
    \/ handleRetrainModelCompat
    \/ EnvDeployDataset
    \/ EnvWriteEntry
    \/ EnvEvictWeights

SpecRetrain == Init /\ [][NextRetrain]_vars

\* a mounted chart renders; the array it sorts is the one the page holds in
\* data and passed as its data prop
renderChart(stats, sorted) ==
    /\ pc = "ready"
    /\ Len(data[stats]) > 0
    /\ data' = [data EXCEPT ![stats] = sorted]
    /\ UNCHANGED <<dataset, publicModel, csvLine, csvRow, localDoc, idb, clock, pc, model,
                   loading, isTrainingModel, error, prediction, formLoading,
                   lastFeatures, lastProfile, lastPredict, lastAttempt, lastLoad,
                   lastInfo, lastGet, lastSave, entry>>

ExperienceLevelChart == renderChart("experienceStats", sortExperience(data.experienceStats))

SalaryTrendsChart == renderChart("yearlyStats", sortYear(data.yearlyStats))

CompanySizeChart == renderChart("companySizeStats", sortCompanySize(data.companySizeStats))

YearlyTrendsChart == renderChart("yearlyStats", sortYear(data.yearlyStats))

\* visits to the dashboard and the charts of its tabs
NextCharts ==
    \/ ReloadPage
    \/ \E fetchOk \in BOOLEAN : initializeAppLoad(fetchOk)
    \/ initializeAppGetModel
    \/ initializeAppGetModelCompat
    \/ ExperienceLevelChart
    \/ SalaryTrendsChart
    \/ CompanySizeChart
    \/ YearlyTrendsChart

SpecCharts == Init /\ [][NextCharts]_vars

\* a new visit is begun only while a training run is left for it, so that
\* no visit is cut off by the bound on training runs
NewVisit ==
    /\ clock < MaxRuns
    /\ ReloadPage \/ ClearCacheAndRetry

startInitializeApp == \E fetchOk \in BOOLEAN : initializeAppLoad(fetchOk)

finishInitializeApp == initializeAppGetModel \/ initializeAppGetModelCompat

NextLive ==
    \/ NewVisit
    \/ startInitializeApp
    \/ finishInitializeApp
    \/ EnvDeployDataset
    \/ EnvWriteEntry
    \/ EnvEvictWeights

\* start-up with its scheduling: the effect runs initializeApp once the page
\* has mounted, and each of its awaits (the fetch of the data set, the call
\* of getOrTrainModel) settles, after which the event loop resumes it
SpecLive ==
    /\ Init
    /\ [][NextLive]_vars
    /\ WF_vars(startInitializeApp)
    /\ WF_vars(finishInitializeApp)

\* standardization: visits of a browser to a deployment that bundles no
\* model and serves one of ScaleDatasets
InitScale ==
    /\ dataset \in ScaleDatasets
    /\ publicModel = Null
    /\ FreshBrowser
    /\ FreshPage
    /\ NoLine

NextScale ==
    \/ ReloadPage
    \/ \E fetchOk \in BOOLEAN : initializeAppLoad(fetchOk)
    \/ initializeAppGetModel
    \/ initializeAppGetModelCompat
    \/ handlePredict
    \/ handlePredictInline

SpecScale == InitScale /\ [][NextScale]_vars

\* the .map callback of parseCSV runs on the line
parseCSVLine ==
    /\ IsNull(csvRow)
    /\ csvRow' = [some |-> TRUE, values |-> splitLine(csvLine),
                  row |-> mapLine(CsvHeaders, csvLine)]
    /\ UNCHANGED <<dataset, publicModel, localDoc, idb, clock, pc, data, model,
                   loading, isTrainingModel, error, prediction, formLoading,
                   lastFeatures, lastProfile, lastPredict, lastAttempt, lastLoad,
                   lastInfo, lastGet, lastSave, entry, csvLine>>

\* parsing alone: one data line of a file with the header CsvHeaders
InitCsv ==
    /\ dataset = BlankCsv
    /\ publicModel = Null
    /\ FreshBrowser
    /\ FreshPage
    /\ csvLine \in CsvLines
    /\ csvRow = Null

NextCsv == parseCSVLine

SpecCsv == InitCsv /\ [][NextCsv]_vars

-----------------------------------------------------------------------------
(* The claims *)

\* C1: every salary the prediction path produces (predict, predictBatch, the
\* prediction the form stores) is >= 0
C1_PredictionsNonNegative ==
    /\ ~IsNull(lastPredict) => lastPredict.value >= 0
    /\ ~IsNull(prediction) => prediction.value >= 0

\* a record is valid in the words of the data model: positive salary, year
\* from 2020 on, the four categorical fields filled in
ValidRecord(r) ==
    ~(\/ r.salary_in_usd <= 0
      \/ r.work_year < 2020
      \/ r.experience_level = ""
      \/ r.employment_type = ""
      \/ r.company_size = ""
      \/ r.job_title = "")

Occurrences(seq, x) == Cardinality({i \in 1..Len(seq) : seq[i] = x})

\* C2: the records loadAndProcessData keeps are exactly the valid parsed
\* rows: every kept record is a valid parsed row, no valid parsed row is
\* dropped, features and targets cover the same records
C2_KeepsExactlyValidRows ==
    pc = "getModel" =>
      LET parsed == parsedRows(dataset)
          kept == data.rawData
      IN /\ \A i \in 1..Len(kept) :
              /\ ValidRecord(kept[i])
              /\ Occurrences(kept, kept[i]) <= Occurrences(parsed, kept[i])
         /\ \A i \in 1..Len(parsed) :
              ValidRecord(parsed[i]) =>
                Occurrences(kept, parsed[i]) = Occurrences(parsed, parsed[i])
         /\ Len(data.features) = Len(kept)
         /\ Len(data.targets) = Len(kept)

\* C2 witness: a file was ingested that held a valid row and rows failing
\* the salary, the year and a categorical condition
C2_Witness ==
    /\ pc = "getModel"
    /\ Len(data.rawData) < Len(dataset.lines)
    /\ \E i \in 1..Len(dataset.lines) : parsedRows(dataset)[i].job_title = ""
    /\ \E i \in 1..Len(dataset.lines) : parsedRows(dataset)[i].salary_in_usd = 0

\* the latest getOrTrainModel call returned a cached model, not a trained one
AcceptedCached ==
    /\ ~IsNull(lastGet)
    /\ lastGet.ok
    /\ \A i \in 1..Len(lastGet.calls) : lastGet.calls[i] # "train"

\* C3: a prediction made with an accepted cached model encodes the job title
\* under the vocabulary the model was trained with
C3_CachedVocabularyIsTheOneUsed ==
    (pc = "ready" /\ AcceptedCached /\ ~IsNull(lastFeatures)) =>
      /\ Has(model.metadata, "topJobTitles")
      /\ model.metadata.topJobTitles = data.topJobTitles

\* the record createFeatures would get for the fields of a form
ProfileRecord(p) ==
    [work_year |-> p.workYear, experience_level |-> p.experienceLevel,
     employment_type |-> p.employmentType, company_size |-> p.companySize,
     remote_ratio |-> p.remoteRatio, job_title |-> p.jobTitle]

\* profiles that run every field through its options, and one value outside
ProbeProfiles(d) ==
    LET base == [workYear |-> 2024, experienceLevel |-> "SE", employmentType |-> "FT",
                 companySize |-> "M", jobTitle |-> d.rawData[1].job_title,
                 remoteRatio |-> 50]
    IN {[base EXCEPT !.workYear = y] : y \in 2020..2030}
       \cup {[base EXCEPT !.experienceLevel = v] : v \in {"EN", "MI", "SE", "EX", "XX"}}
       \cup {[base EXCEPT !.employmentType = v] : v \in {"FT", "PT", "CT", "FL", "XX"}}
       \cup {[base EXCEPT !.companySize = v] : v \in {"S", "M", "L", "XL"}}
       \cup {[base EXCEPT !.remoteRatio = v] : v \in {0, 25, 100}}
       \cup {[base EXCEPT !.jobTitle = d.rawData[i].job_title] : i \in 1..Len(d.rawData)}
       \cup {[base EXCEPT !.jobTitle = "Unlisted Title"]}

\* C4: the vector the form builds is the vector createFeatures emits for a
\* record with the same fields under the same vocabulary
C4_FormVectorIsEncoderVector ==
    /\ ~IsNull(lastFeatures) =>
         lastFeatures.value = encodeJob(ProfileRecord(lastProfile.value), data.topJobTitles)
    /\ ~IsNull(data) =>
         \A p \in ProbeProfiles(data) :
            /\ formFeatures(p, data.topJobTitles)
                 = encodeJob(ProfileRecord(p), data.topJobTitles)
            /\ formFeaturesInline(p, data.topJobTitles)
                 = encodeJob(ProfileRecord(p), data.topJobTitles)

\* C4 witness: the form built a vector for a title outside the vocabulary
C4_Witness ==
    /\ ~IsNull(lastFeatures)
    /\ lastFeatures.value[6] = -100
    /\ lastFeatures.value[2] = 300

\* C5: getOrTrainModel of ml-model.ts asks the bundled model first, local
\* storage second, and trains and saves only when both are absent; once a
\* source loads, nothing after it runs
C5_SourcesInPriorityOrder ==
    (~IsNull(lastGet) /\ lastGet.variant = "public") =>
      /\ lastGet.calls[1] = "loadPublic"
      /\ ~IsNull(publicModel) =>
           /\ lastGet.calls = <<"loadPublic">>
           /\ IsNull(lastLoad)
           /\ model.model = publicModel.model
      /\ IsNull(publicModel) =>
           /\ ~IsNull(lastLoad)
           /\ ~IsNull(lastLoad.outcome.result) =>
                /\ lastGet.calls = <<"loadPublic", "loadStorage">>
                /\ model.model = lastLoad.outcome.result.model
                /\ idb = lastLoad.weights
           /\ IsNull(lastLoad.outcome.result) =>
                lastGet.calls = <<"loadPublic", "loadStorage", "train", "save">>

\* C5 witness: the bundled model was returned while a saved local copy was
\* there to load
C5_Witness ==
    /\ ~IsNull(lastGet)
    /\ lastGet.variant = "public"
    /\ ~IsNull(publicModel)
    /\ entry = "saved"

\* the latest loadModelFromStorage call met an entry whose version is not
\* the expected one
LoadMetOtherVersion ==
    /\ ~IsNull(lastLoad)
    /\ lastLoad.before.kind = "json"
    /\ Has(lastLoad.before.value, "metadata")
    /\ lastLoad.before.value.metadata.version # "1.0.0"

\* C6: on a version other than "1.0.0" loadModelFromStorage returns null,
\* throws nothing and loads no weights
C6_VersionMismatchIsAbsent ==
    LoadMetOtherVersion =>
      /\ IsNull(lastLoad.outcome.result)
      /\ ~lastLoad.outcome.threw
      /\ ~lastLoad.outcome.weightsRead

\* C6 witness: such a load happened with weights in IndexedDB
C6_Witness == LoadMetOtherVersion /\ ~IsNull(lastLoad.weights)

\* the entry the latest load met is corrupted: not JSON, a field missing,
\* or no weights behind it
LoadMetCorrupted ==
    /\ ~IsNull(lastLoad)
    /\ lastLoad.before # NoDoc
    /\ \/ lastLoad.before.kind # "json"
       \/ ~Has(lastLoad.before.value, "metadata")
       \/ ~Has(lastLoad.before.value, "scaler")
       \/ ~Has(lastLoad.before.value.metadata, "topJobTitles")
       \/ IsNull(lastLoad.weights)

\* C7: a corrupted entry makes loadModelFromStorage report absent without
\* throwing and delete the entry, and the call that loaded it does not fail
C7_CorruptedEntryHeals ==
    LoadMetCorrupted =>
      /\ IsNull(lastLoad.outcome.result)
      /\ ~lastLoad.outcome.threw
      /\ lastLoad.outcome.doc = NoDoc
      /\ lastGet.message # "TypeError"

\* the latest getOrTrainModel call loaded a cached model whose features or
\* topJobTitles differ in length from the data set's
LoadedIncompatible ==
    /\ ~IsNull(lastGet)
    /\ ~IsNull(lastLoad)
    /\ ~IsNull(lastLoad.outcome.result)
    /\ Has(lastLoad.outcome.result.metadata, "features")
    /\ Has(lastLoad.outcome.result.metadata, "topJobTitles")
    /\ \/ Len(lastLoad.outcome.result.metadata.features) # Len(data.featureNames)
       \/ Len(lastLoad.outcome.result.metadata.topJobTitles) # Len(data.topJobTitles)

\* C8: an incompatible cached model is discarded: getOrTrainModel trains,
\* persists the new model and never returns the cached one
C8_IncompatibleCacheIsRetrained ==
    LoadedIncompatible =>
      /\ \E i \in 1..Len(lastGet.calls) : lastGet.calls[i] = "train"
      /\ lastGet.ok =>
           /\ model.model # lastLoad.outcome.result.model
           /\ entry = "saved"

\* C9: a load that follows a completed save returns the saved scaler and
\* the saved metadata
C9_SaveLoadRoundTrip ==
    (~IsNull(lastLoad) /\ lastLoad.afterSave) =>
      LET got == lastLoad.outcome.result
          was == lastLoad.saved
      IN /\ ~IsNull(got)
         /\ got.scaler.featureMean = was.scaler.featureMean
         /\ got.scaler.featureStd = was.scaler.featureStd
         /\ got.scaler.targetMean = was.scaler.targetMean
         /\ got.scaler.targetStd = was.scaler.targetStd
         /\ got.metadata.version = "1.0.0"
         /\ got.metadata.trainedAt = was.at
         /\ got.metadata.dataSize = was.dataSize
         /\ got.metadata.features = was.features
         /\ got.metadata.topJobTitles = was.topJobTitles

\* C9 witness: a load followed a save whose feature means and deviations
\* differ
C9_Witness ==
    /\ ~IsNull(lastLoad)
    /\ lastLoad.afterSave
    /\ lastLoad.saved.scaler.featureMean # lastLoad.saved.scaler.featureStd

\* C10: after clearSavedModel neither the document nor the weights of the
\* cached model remain, and load and getModelInfo report absent until the
\* next save
C10_ClearRemovesDocumentAndWeights ==
    entry = "cleared" =>
      /\ localDoc = NoDoc
      /\ IsNull(idb)
      /\ IsNull(loadModelFromStorage(Storage(localDoc, idb)).result)
      /\ IsNull(getModelInfo(localDoc))

\* the latest getOrTrainModel call came after a completed train-and-save,
\* with the storage untouched since, over data that has the size, the
\* feature names, the vocabulary and the scaler of the data saved with it
\* (as the same ProcessedData has)
WarmCall ==
    /\ ~IsNull(lastGet)
    /\ lastGet.afterSave
    /\ lastGet.saved.dataSize = Len(data.rawData)
    /\ lastGet.saved.features = data.featureNames
    /\ lastGet.saved.topJobTitles = data.topJobTitles
    /\ lastGet.saved.scaler = fitScaler(data)

CallsOf(g) == {g.calls[i] : i \in 1..Len(g.calls)}

\* C11: warm start: a getOrTrainModel call that follows a successful
\* train-and-save, same data, storage untouched, returns the cached model
\* (the saved one; for ml-model.ts with a bundle present, the bundled one)
\* and neither trains nor saves, and leaves the storage as it was
C11_WarmStartSkipsTraining ==
    WarmCall =>
      /\ lastGet.ok
      /\ "train" \notin CallsOf(lastGet)
      /\ "save" \notin CallsOf(lastGet)
      /\ lastSave = lastGet.saved
      /\ entry = "saved"
      /\ \/ /\ model.model.run = lastGet.saved.at
            /\ model.scaler = lastGet.saved.scaler
         \/ /\ lastGet.variant = "public"
            /\ ~IsNull(publicModel)
            /\ model.model = publicModel.model

\* C11 witness: a warm call returned the model the earlier call had saved
C11_Witness ==
    /\ WarmCall
    /\ pc = "ready"
    /\ "loadStorage" \in CallsOf(lastGet)
    /\ model.model.run = lastGet.saved.at

\* the messages loadAndProcessData fails with
IngestionMessages ==
    {"Data processing failed: Failed to fetch dataset",
     "Data processing failed: Dataset file is empty",
     "Data processing failed: No valid data found in dataset",
     "Data processing failed: Insufficient valid data for analysis"}

\* C12: a failure of loadAndProcessData or getOrTrainModel aborts start-up:
\* error holds the failure message, the model stays unset, getOrTrainModel
\* is not called after an ingestion failure, and the error view with Retry
\* and Clear Cache & Retry is what is rendered, not the prediction form
C12_StartupFailureAborts ==
    /\ (pc # "init" /\ ~loadAndProcessData(TRUE, dataset).ok) => pc = "error"
    /\ (~IsNull(lastGet) /\ ~lastGet.ok) => pc = "error"
    /\ pc = "error" =>
         /\ ~IsNull(error)
         /\ IsNull(model)
         /\ ~loading
         /\ ~isTrainingModel
         /\ DashboardView = "error"
         /\ ENABLED ReloadPage
         /\ ENABLED ClearCacheAndRetry
         /\ ~ENABLED handlePredict
         /\ ~ENABLED handlePredictInline
         /\ IF IsNull(lastGet)
              THEN /\ error.value \in IngestionMessages
                   /\ IsNull(data)
                   /\ IsNull(lastLoad)
            ELSE /\ ~lastGet.ok
                 /\ error.value = lastGet.message
    /\ DashboardView = "dashboard" <=> pc = "ready"

\* C12 witness: getOrTrainModel failed after the data had been set
C12_Witness ==
    /\ pc = "error"
    /\ ~IsNull(lastGet)
    /\ ~IsNull(data)
    /\ "save" \in CallsOf(lastGet)

\* the latest handlePredict call ended in its catch block
AttemptFailed == ~IsNull(lastAttempt) /\ lastAttempt.outcome = "failed"

\* a step of the form after which the latest try block is one that failed:
\* the form acts only on the rendered dashboard, every step there is a
\* handlePredict call, and a call with a field missing returns before try
FailedAttemptStep == pc = "ready" /\ pc' = "ready" /\ AttemptFailed'

\* a handlePredict call that ends with a prediction
handlePredictDone == handlePredict /\ lastAttempt'.outcome = "done"

handlePredictInlineDone == handlePredictInline /\ lastAttempt'.outcome = "done"

\* C13: a failing prediction attempt is local: the step that catches the
\* failure leaves the model, its scaler and the prediction on display as they
\* were and ends with the loading flag false; afterwards the dashboard with
\* the form is still rendered and a later attempt with the same model can
\* end with a prediction
C13_PredictionFailureIsLocal ==
    /\ [][FailedAttemptStep =>
            /\ model' = model
            /\ model'.scaler = model.scaler
            /\ prediction' = prediction
            /\ formLoading' = FALSE
            /\ error' = error
            /\ data' = data]_vars
    /\ [](AttemptFailed =>
            /\ ~formLoading
            /\ IsNull(error)
            /\ DashboardView = "dashboard"
            /\ model.predict => ENABLED handlePredictDone
            /\ ~model.predict => ENABLED handlePredictInlineDone)

\* C13 witness: an attempt failed while the prediction of an earlier call
\* of model.predict was on display
C13_Witness ==
    /\ AttemptFailed
    /\ ~IsNull(prediction)
    /\ ~IsNull(lastPredict)
    /\ prediction.value = lastPredict.value

\* how many parsed rows of a file are valid records
ValidCount(csv) ==
    Cardinality({i \in 1..Len(csv.lines) : ValidRecord(parsedRows(csv)[i])})

InsufficientMessage == "Data processing failed: Insufficient valid data for analysis"

NoValidDataMessage == "Data processing failed: No valid data found in dataset"

\* start-up stopped at ingestion, and the file had been fetched
IngestionRejected ==
    /\ pc = "error"
    /\ IsNull(lastGet)
    /\ error.value # "Data processing failed: Failed to fetch dataset"

\* C14 as claimed: a non-blank file with fewer than 10 valid records (0 to
\* 9) makes loadAndProcessData fail with the insufficient-data error
C14_FewerThanTenIsInsufficient ==
    (~dataset.blank /\ ValidCount(dataset) < 10) =>
      /\ ~loadAndProcessData(TRUE, dataset).ok
      /\ loadAndProcessData(TRUE, dataset).message = InsufficientMessage
      /\ IngestionRejected => error.value = InsufficientMessage

\* the message a non-blank file with too few valid records fails with
TooFewMessage(csv) ==
    IF \A i \in 1..Len(csv.lines) :
         ~(parsedRows(csv)[i].salary_in_usd > 0 /\ parsedRows(csv)[i].work_year >= 2020)
      THEN NoValidDataMessage
    ELSE InsufficientMessage

\* C14 amended: a non-blank file with fewer than 10 valid records makes
\* loadAndProcessData fail, with "No valid data found in dataset" when no
\* row has a positive salary and a year from 2020 on and with the
\* insufficient-data error otherwise; the failure carries no statistics or
\* features, and a ProcessedData never has fewer than 10 records
C14_FewerThanTenFails ==
    /\ (~dataset.blank /\ ValidCount(dataset) < 10) =>
         LET r == loadAndProcessData(TRUE, dataset)
         IN /\ ~r.ok
            /\ ~Has(r, "value")
            /\ r.message = TooFewMessage(dataset)
            /\ IngestionRejected => (error.value = r.message /\ IsNull(data))
            /\ pc # "init" => (pc = "error" /\ IsNull(data))
    /\ ~IsNull(data) =>
         /\ Len(data.rawData) >= 10
         /\ Len(data.rawData) = ValidCount(dataset)

\* C14 witness: a file with exactly 9 valid records among more rows was
\* rejected with the insufficient-data error
C14_Witness ==
    /\ IngestionRejected
    /\ ValidCount(dataset) = 9
    /\ Len(dataset.lines) > 9
    /\ error.value = InsufficientMessage

\* the seven tables of a ProcessedData with the record field each groups by
StatsTables ==
    {<<"experienceStats", "experience_level">>, <<"locationStats", "company_location">>,
     <<"yearlyStats", "work_year">>, <<"companySizeStats", "company_size">>,
     <<"jobTitleStats", "job_title">>, <<"remoteStats", "remote_ratio">>,
     <<"employmentStats", "employment_type">>}

\* m is sum/n rounded to the nearest integer, a half going up
IsRoundedMean(m, sum, n) == 2 * n * m <= 2 * sum + n /\ 2 * sum + n < 2 * n * (m + 1)

\* table is the statistics of records grouped by field
IsStatsOf(table, records, field) ==
    LET members(key) == {i \in 1..Len(records) : records[i][field] = key}
        salarySum(key) ==
            SumSeq([j \in 1..Len(records) |->
                      IF records[j][field] = key THEN records[j].salary_in_usd ELSE 0])
    IN /\ \A g, h \in 1..Len(table) : table[g].key = table[h].key => g = h
       /\ {table[g].key : g \in 1..Len(table)}
            = {records[i][field] : i \in 1..Len(records)}
       /\ \A g \in 1..Len(table) :
            /\ table[g].count = Cardinality(members(table[g].key))
            /\ IsRoundedMean(table[g].avgSalary, salarySum(table[g].key), table[g].count)
       /\ SumSeq([g \in 1..Len(table) |-> table[g].count]) = Len(records)

\* 12 records with levels EN x5, SE x5, EX x2
ScenarioRecords ==
    [i \in 1..12 |->
       [experience_level |-> IF i <= 5 THEN "EN" ELSE IF i <= 10 THEN "SE" ELSE "EX",
        salary_in_usd    |-> 10 * i + (i % 2)]]

\* C15: each of the seven tables has exactly one entry per distinct key value
\* of the valid records, with the number of those records as count and the
\* rounded mean of their salaries as avgSalary; the counts sum to the
\* number of valid records; the 12-record scenario gives 3 groups of 5, 5, 2
C15_TablesGroupCountAndMean ==
    /\ ~IsNull(data) =>
         \A t \in StatsTables : IsStatsOf(data[t[1]], data.rawData, t[2])
    /\ LET table == calculateStats(ScenarioRecords, fieldOf(ScenarioRecords, "experience_level"))
       IN /\ Len(table) = 3
          /\ IsStatsOf(table, ScenarioRecords, "experience_level")
          /\ \A g \in 1..3 :
               table[g].count = (IF table[g].key = "EX" THEN 2 ELSE 5)

\* C15 witness: tables were computed in which a group has several records
\* and a mean that is rounded up, one of them from exactly a half
C15_Witness ==
    /\ ~IsNull(data)
    /\ \E t \in StatsTables : \E g \in 1..Len(data[t[1]]) :
         LET e == data[t[1]][g]
             sum == SumSeq([j \in 1..Len(data.rawData) |->
                              IF data.rawData[j][t[2]] = e.key
                                THEN data.rawData[j].salary_in_usd ELSE 0])
         IN e.count > 1 /\ 2 * sum = (2 * e.avgSalary - 1) * e.count
    /\ Len(data.jobTitleStats) < Len(data.rawData)

\* C16: every statistics table loadAndProcessData returns is sorted by
\* descending mean salary
C16_TablesSortedByMeanDescending ==
    ~IsNull(data) =>
      \A t \in StatsTables : \A g \in 1..(Len(data[t[1]]) - 1) :
         data[t[1]][g].avgSalary >= data[t[1]][g + 1].avgSalary

\* C16 witness: a table of three or more entries with distinct means whose
\* first entry is not the key met first in the file
C16_Witness ==
    /\ ~IsNull(data)
    /\ \E t \in StatsTables :
         /\ Len(data[t[1]]) >= 3
         /\ data[t[1]][1].avgSalary > data[t[1]][Len(data[t[1]])].avgSalary
         /\ data[t[1]][1].key # data.rawData[1][t[2]]

\* the titles of the records, how often each occurs, where each is first met
TitlesOf(records) == {records[i].job_title : i \in 1..Len(records)}

Frequency(records, title) ==
    Cardinality({i \in 1..Len(records) : records[i].job_title = title})

FirstMet(records, title) ==
    CHOOSE i \in 1..Len(records) :
        /\ records[i].job_title = title
        /\ \A j \in 1..(i - 1) : records[j].job_title # title

\* title t ranks before title u: more frequent, or as frequent and met first
RanksBefore(records, t, u) ==
    \/ Frequency(records, t) > Frequency(records, u)
    \/ /\ Frequency(records, t) = Frequency(records, u)
       /\ FirstMet(records, t) < FirstMet(records, u)

\* C17: the vocabulary holds min(20, number of distinct titles) distinct
\* titles of the valid records, by descending frequency with ties in order of
\* first encounter, and every title in it ranks before every title left out
C17_VocabularyIsTopTwentyByFrequency ==
    ~IsNull(data) =>
      LET V == data.topJobTitles
          R == data.rawData
          inV == {V[g] : g \in 1..Len(V)}
          distinct == Cardinality(TitlesOf(R))
      IN /\ Len(V) = (IF distinct < 20 THEN distinct ELSE 20)
         /\ inV \subseteq TitlesOf(R)
         /\ \A g, h \in 1..Len(V) : g < h => RanksBefore(R, V[g], V[h])
         /\ \A t \in inV : \A u \in TitlesOf(R) \ inV :
              /\ Frequency(R, t) >= Frequency(R, u)
              /\ RanksBefore(R, t, u)

\* C17 witness: more than 20 titles, and a title met late is in the
\* vocabulary, at its head, while a title met before it is left out
C17_Witness ==
    /\ ~IsNull(data)
    /\ Cardinality(TitlesOf(data.rawData)) > 20
    /\ data.topJobTitles[1] # data.rawData[1].job_title
    /\ \E u \in TitlesOf(data.rawData) :
         /\ \A g \in 1..Len(data.topJobTitles) : data.topJobTitles[g] # u
         /\ FirstMet(data.rawData, u) < FirstMet(data.rawData, data.topJobTitles[1])

\* the four encoded positions with the record field and the lookup list of
\* each (hundredths: -100 is the index -1)
EncodedFields(vocabulary) ==
    {<<2, "experience_level", experienceLevels>>, <<3, "employment_type", employmentTypes>>,
     <<4, "company_size", companySizes>>, <<6, "job_title", vocabulary>>}

InList(list, x) == \E k \in 1..Len(list) : list[k] = x

\* vector has six elements, -1 exactly where the record's value is absent
\* from its list and the position in the list elsewhere
EncodesWithMinusOne(vector, record, vocabulary) ==
    /\ Len(vector) = 6
    /\ \A f \in EncodedFields(vocabulary) :
         IF InList(f[3], record[f[2]])
           THEN /\ vector[f[1]] >= 0
                /\ f[3][(vector[f[1]] \div 100) + 1] = record[f[2]]
         ELSE vector[f[1]] = -100

\* C18: a value absent from its lookup list (a job title outside the
\* vocabulary included) is encoded as -1 and is no error: every record gets
\* its 6-element vector and its target, and predict returns a salary for a
\* vector that holds -1
C18_AbsentValueEncodesMinusOne ==
    /\ ~IsNull(data) =>
         /\ Len(data.features) = Len(data.rawData)
         /\ Len(data.targets) = Len(data.rawData)
         /\ \A i \in 1..Len(data.rawData) :
              EncodesWithMinusOne(data.features[i], data.rawData[i], data.topJobTitles)
         /\ \A p \in ProbeProfiles(data) :
              EncodesWithMinusOne(encodeJob(ProfileRecord(p), data.topJobTitles),
                                  ProfileRecord(p), data.topJobTitles)
    /\ (pc = "ready" /\ model.predict) =>
         \A p \in ProbeProfiles(data), z \in ForwardOutputs :
            predict(model, formFeatures(p, data.topJobTitles), z) \in Nat
    /\ ~IsNull(lastPredict) => lastPredict.value \in Nat

\* C18 witness: the records include one encoded with -1, and predict has
\* returned a salary for a form vector that holds -1
C18_Witness ==
    /\ ~IsNull(lastPredict)
    /\ lastPredict.input[6] = -100
    /\ \E i \in 1..Len(data.features) : data.features[i][6] = -100

\* C19: features, targets and rawData have one length, rawData is the valid
\* rows in file order, features[i] is the encoding of rawData[i] and
\* targets[i] is the salary of rawData[i]
C19_FeaturesTargetsRecordsAligned ==
    ~IsNull(data) =>
      /\ Len(data.features) = Len(data.rawData)
      /\ Len(data.targets) = Len(data.rawData)
      /\ data.rawData = SelectSeq(parsedRows(dataset), ValidRecord)
      /\ \A i \in 1..Len(data.rawData) :
           /\ EncodesWithMinusOne(data.features[i], data.rawData[i], data.topJobTitles)
           /\ data.features[i][1] = 100 * (data.rawData[i].work_year - 2020)
           /\ data.features[i][5] = data.rawData[i].remote_ratio
           /\ data.targets[i] = data.rawData[i].salary_in_usd

\* C19 witness: rows were dropped at the head and at the end of the file,
\* and the kept records differ in salary and in encoding
C19_Witness ==
    /\ ~IsNull(data)
    /\ ~ValidRecord(parsedRows(dataset)[1])
    /\ ~ValidRecord(parsedRows(dataset)[Len(dataset.lines)])
    /\ data.targets[1] # data.targets[4]
    /\ data.features[1] # data.features[2]

\* the commas of a line that lie outside quotes: an even number of double
\* quotes stands before them
OutsideCommas(line) ==
    {i \in 1..Len(line) :
        /\ line[i] = ","
        /\ Cardinality({j \in 1..(i - 1) : line[j] = "\""}) % 2 = 0}

\* where the k-th field of a line ends: at the k-th comma outside quotes, or
\* at the end of the line
FieldEnd(line, k) ==
    IF k = 0 THEN 0
    ELSE IF k > Cardinality(OutsideCommas(line)) THEN Len(line) + 1
    ELSE CHOOSE p \in OutsideCommas(line) :
            Cardinality({q \in OutsideCommas(line) : q <= p}) = k

\* the k-th field of a line as the claim reads it: the characters between two
\* separating commas, without the quotes and the blanks around
FieldText(line, k) ==
    textOf(trim(replaceQuotes(SubSeq(line, FieldEnd(line, k - 1) + 1,
                                     FieldEnd(line, k) - 1))))

\* C20: a data line has one field more than it has commas outside quotes,
\* every field is the text between two such commas with its quotes removed
\* (commas inside quotes kept in it), and the k-th field is the value under
\* the k-th header, a header without a field getting the empty value.
C20_SplitIsQuoteAware ==
    ~IsNull(csvRow) =>
        /\ Len(csvRow.values) = Cardinality(OutsideCommas(csvLine)) + 1
        /\ \A k \in 1..Len(csvRow.values) :
              textOf(csvRow.values[k]) = FieldText(csvLine, k)
        /\ \A k \in 1..Len(CsvHeaders) :
              LET field == IF k <= Len(csvRow.values) THEN FieldText(csvLine, k) ELSE ""
              IN CsvHeaders[k] \notin NumericHeaders
                    => csvRow.row[CsvHeaders[k]] = field

\* a quoted field that is a comma, followed by a second field
C20_Witness ==
    /\ ~IsNull(csvRow)
    /\ csvLine = <<"\"", ",", "\"", ",", "7">>
    /\ Len(csvRow.values) = 2
    /\ csvRow.row.job_title = ","
    /\ csvRow.row.salary_in_usd = 7

\* C21: every prediction call that entered its try block, whether it set a
\* prediction or failed, leaves none of the tensors it created alive.
C21_PredictionReleasesTensors ==
    ~IsNull(lastAttempt) => lastAttempt.tensors = 0

\* the model in use was trained in this visit
TrainedNow ==
    /\ pc = "ready"
    /\ \E i \in 1..Len(lastGet.calls) : lastGet.calls[i] = "train"

\* C22: every standardized value is finite, in the training that produced
\* the model in use and in every prediction call, whatever the deviations of
\* the feature columns and of the target are.
C22_StandardizationIsFinite ==
    /\ TrainedNow => model.model.fitted = {"finite"}
    /\ ~IsNull(lastAttempt) => lastAttempt.input = {"finite"}

\* the latest getOrTrainModel call was made by handleRetrainModel and
\* returned a model
RetrainSucceeded ==
    /\ ~IsNull(lastGet)
    /\ lastGet.retrain
    /\ lastGet.ok

\* the cache holds the model trained in run now, weights and document
CacheHoldsRun(now) ==
    /\ ~IsNull(idb)
    /\ idb.run = now
    /\ localDoc.kind = "json"
    /\ localDoc.value.metadata.trainedAt = now

\* C23: a successful Retrain Model action has trained on the current data
\* and left the new model in the cache and on the page; it has not returned
\* a stored or bundled model.
C23_RetrainAlwaysTrains ==
    RetrainSucceeded =>
      /\ \E i \in 1..Len(lastGet.calls) : lastGet.calls[i] = "train"
      /\ model.model.run = clock
      /\ model.scaler = fitScaler(data)
      /\ CacheHoldsRun(clock)

\* the latest getOrTrainModel call trained a replacement for an entry that
\* was in the cache: handleRetrainModel made it, or it loaded an
\* incompatible cached copy
TrainedReplacement ==
    /\ ~IsNull(lastGet)
    /\ \E i \in 1..Len(lastGet.calls) : lastGet.calls[i] = "train"
    /\ lastGet.retrain \/ LoadedIncompatible

\* C25: after a training that replaces a cache entry, weights written by
\* that training are in storage only with no document or with the document
\* of the same training, never with the document of the entry replaced.
C25_OldEntryClearedBeforeNewIsWritten ==
    (TrainedReplacement /\ ~IsNull(idb) /\ idb.run = clock) =>
        \/ localDoc = NoDoc
        \/ CacheHoldsRun(clock)

\* the store a training that replaced an entry left behind when it stopped
\* before its save had completed
StoppedMidRetrain ==
    /\ TrainedReplacement
    /\ ~lastGet.ok

\* what a loadModelFromStorage call made now would return
LoadNow == loadModelFromStorage(Storage(localDoc, idb)).result

\* C26: when a training that replaces a cache entry stops before its save
\* has completed, a loadModelFromStorage call made afterwards reports absent
\* or returns weights with the scaler and metadata of the same training.
C26_StoppedRetrainNeverMixesRuns ==
    StoppedMidRetrain =>
        \/ IsNull(LoadNow)
        \/ LoadNow.model.run = LoadNow.metadata.trainedAt

\* the number of titles the usage notes say the form offers
DocumentedTitles == 15

\* C24: the titles the form offers are the DocumentedTitles most common
\* titles of the data set (all of them when there are fewer): that many, and
\* none less frequent than a title left out.
C24_FormOffersMostCommonTitles ==
    pc = "ready" =>
      LET R == data.rawData
          items == jobTitleItems(data)
          offered == {items[i].key : i \in 1..Len(items)}
          distinct == Cardinality(TitlesOf(R))
      IN /\ Cardinality(offered) =
              (IF distinct < DocumentedTitles THEN distinct ELSE DocumentedTitles)
         /\ \A t \in offered, u \in TitlesOf(R) \ offered :
               Frequency(R, t) >= Frequency(R, u)

\* a step in which the getOrTrainModel call of initializeApp ends, having
\* trained a model
StartupTrainingEnds ==
    /\ pc = "getModel"
    /\ pc' # "getModel"
    /\ \E i \in 1..Len(lastGet'.calls) : lastGet'.calls[i] = "train"

\* C27: while the getOrTrainModel call of initializeApp trains a model,
\* isTrainingModel is true and the training placeholder is what is rendered.
C27_TrainingShowsPlaceholder ==
    [][StartupTrainingEnds => (isTrainingModel /\ DashboardView = "training")]_vars

\* a table is in descending order of avgSalary
DescendingBySalary(stats) ==
    \A g, h \in 1..Len(stats) : g < h => stats[g].avgSalary >= stats[h].avgSalary

\* C28: whatever charts have rendered, the three tables the charts are
\* given hold the entries loadAndProcessData returned, in the order it
\* returned them, which is descending avgSalary.
C28_ChartsLeaveDataUnchanged ==
    pc = "ready" =>
      LET loaded == loadAndProcessData(TRUE, dataset).value
      IN /\ data.experienceStats = loaded.experienceStats
         /\ data.yearlyStats = loaded.yearlyStats
         /\ data.companySizeStats = loaded.companySizeStats
         /\ DescendingBySalary(data.experienceStats)
         /\ DescendingBySalary(data.yearlyStats)
         /\ DescendingBySalary(data.companySizeStats)

\* in the latest getOrTrainModel call, storing the weights failed
WeightsNotStored == ~IsNull(lastGet) /\ lastGet.fault = "weights"

\* C29: the document of a training is in storage only with the weights of
\* that training; and when storing the weights fails, the document and the
\* weights are what the call's load had left, getOrTrainModel fails, and
\* the page has no model.
C29_DocumentOnlyAfterWeights ==
    /\ (/\ ~IsNull(lastGet)
        /\ localDoc.kind = "json"
        /\ Has(localDoc.value, "metadata")
        /\ Has(localDoc.value.metadata, "trainedAt")
        /\ localDoc.value.metadata.trainedAt = clock
        /\ \E i \in 1..Len(lastGet.calls) : lastGet.calls[i] = "save")
           => (~IsNull(idb) /\ idb.run = clock)
    /\ WeightsNotStored =>
         /\ localDoc = lastLoad.outcome.doc
         /\ idb = lastLoad.weights
         /\ ~lastGet.ok
         /\ lastGet.message \in {"Error saving model", "Model training failed"}
         /\ IsNull(model)
         /\ pc = "error"
         /\ error.value = lastGet.message

\* C29 witness: storing the weights failed while a document was stored
C29_Witness ==
    /\ WeightsNotStored
    /\ localDoc.kind = "json"
    /\ ~IsNull(idb)

\* a step in which initializeApp ends: its finally block has run
InitializeAppEnds ==
    /\ pc \in {"init", "getModel"}
    /\ pc' \in {"ready", "error"}

\* error is set and model is null
EndedInError == ~IsNull(error) /\ error.value # "" /\ IsNull(model)

\* error is null and data and model are set
EndedReady == IsNull(error) /\ ~IsNull(data) /\ ~IsNull(model)

\* C30: when initializeApp ends, after a success, an ingestion failure or
\* a getOrTrainModel failure, loading and isTrainingModel are false and
\* exactly one of EndedInError and EndedReady holds; and every call that is
\* under way does end.
C30_InitializeAppEndsSettled ==
    /\ [][InitializeAppEnds =>
            /\ ~loading'
            /\ ~isTrainingModel'
            /\ EndedInError' # EndedReady'
            /\ (pc' = "error") = EndedInError']_vars
    /\ (pc \in {"init", "getModel"}) ~> (pc \in {"ready", "error"})

\* C30 witness: initializeApp has ended in error after the data was set
C30_Witness ==
    /\ pc = "error"
    /\ ~IsNull(data)
    /\ EndedInError
    /\ ~loading
    /\ ~isTrainingModel

====
